---- MODULE Spec2Model ----
(***************************************************************************)
(* Model of the multi-format configuration loader of potato_util:          *)
(*   potato_util/io/_sync.py   read_yaml_file, read_json_file,             *)
(*                             read_toml_file, read_ini_file,              *)
(*                             read_config_file, read_all_configs          *)
(*   potato_util/io/_async.py  async_read_*_file, async_read_config_file   *)
(*   potato_util/_base.py      deep_merge                                  *)
(*                                                                         *)
(* Strings are sequences of one-character strings, so that str.lower(),    *)
(* Path.suffix, fnmatch and the code-point order of list.sort() are        *)
(* computed and not assumed.  Configuration values are tagged tuples       *)
(* <<tag, payload>>.                                                       *)
(***************************************************************************)
EXTENDS Integers, Sequences, FiniteSets, TLC

VARIABLES
    fs,            \* the filesystem: path -> <<"dir">> or <<"file", content>>
    binary_toml,   \* module flag _binary_toml (Python >= 3.11)
    \* ---- one call of read_all_configs
    configs_dir,   \* argument: list of directory inputs
    allowed_formats, \* argument: set of ConfigFileFormatEnum members
    pc,            \* position of the call
    dir_idx,       \* index of the next directory of the discovery loop
    file_paths,    \* local _file_paths
    file_idx,      \* index of the next path of the load loop
    config_dict,   \* local _config_dict
    outcome,       \* what the caller receives: <<"pending">>, <<"return", v>>, <<"raise", e>>
    loaded,        \* the paths handed to read_config_file so far, in order
    \* ---- one call of read_config_file / async_read_config_file
    config_path,   \* argument
    load_pc,       \* "idle", "ready", "sync_done", "async_done"
    load_res,      \* the record the call produced
    \* ---- one call of deep_merge
    dict1,         \* argument (base)
    dict2,         \* argument (overlay)
    merge_pc,      \* "idle", "ready", "done"
    merged,        \* the value returned
    \* ---- one call of get_file_checksum or of create_dir
    util_path,     \* argument file_path / create_dir
    warn_mode,     \* argument warn_mode
    chunk_size,    \* argument chunk_size
    sum_pc,        \* "idle", "validate", "open", "read", "returned", "raised"
    sum_opens,     \* how often the file was opened
    sum_read,      \* bytes read and fed to the hash so far
    sum_res,       \* <<"pending">>, <<"return", checksum>>, <<"raise", error, about>>
    mk_pc,         \* "idle", "check", "make", "returned", "raised"
    mk_res         \* the record create_dir produced

vars == <<fs, binary_toml, configs_dir, allowed_formats, pc, dir_idx, file_paths,
          file_idx, config_dict, outcome, loaded, config_path, load_pc, load_res,
          dict1, dict2, merge_pc, merged, util_path, warn_mode, chunk_size, sum_pc,
          sum_opens, sum_read, sum_res, mk_pc, mk_res>>

aggVars == <<configs_dir, allowed_formats, pc, dir_idx, file_paths,
             file_idx, config_dict, outcome, loaded>>
loadVars == <<config_path, load_pc, load_res>>
mergeVars == <<dict1, dict2, merge_pc, merged>>
sumVars == <<chunk_size, sum_pc, sum_opens, sum_read, sum_res>>
mkVars == <<mk_pc, mk_res>>
utilVars == <<util_path, warn_mode, sumVars, mkVars>>

-----------------------------------------------------------------------------
(* Characters and strings                                                  *)

\* The characters the model uses, in ascending code-point order.
Alphabet ==
    << "-", ".", "/",
       "A", "L", "M", "Y",
       "a", "b", "c", "d", "e", "f", "g", "i", "j", "k", "l", "m", "n",
       "o", "s", "t", "w", "x", "y", "z" >>

Chars == { Alphabet[k] : k \in 1..Len(Alphabet) }

\* ord(c), up to an order-preserving renumbering
Ord(c) == CHOOSE k \in 1..Len(Alphabet) : Alphabet[k] = c

\* str.__lt__ : code-point lexicographic order, a proper prefix is smaller
StrLess(s, t) ==
    \E k \in 1..(Len(t)) :
        /\ \A j \in 1..(k - 1) : j <= Len(s) /\ s[j] = t[j]
        /\ \/ k = Len(s) + 1
           \/ k <= Len(s) /\ Ord(s[k]) < Ord(t[k])

\* str.lower() on one character
UpperToLower == [A |-> "a", L |-> "l", M |-> "m", Y |-> "y"]

LowerChar(c) == IF c \in DOMAIN UpperToLower THEN UpperToLower[c] ELSE c

\* str.lower()
Lower(s) == [k \in 1..Len(s) |-> LowerChar(s[k])]

\* str.rfind(c): the last position of c in s, 0 when there is none
\* (positions count from 1 here, so Python's -1 is 0 here, and Python's i is i+1)
RFind(s, c) ==
    LET hits == { k \in 1..Len(s) : s[k] = c }
    IN  IF hits = {} THEN 0 ELSE CHOOSE k \in hits : \A j \in hits : j <= k

\* PurePath.name : the text after the last "/"
BaseName(p) == SubSeq(p, RFind(p, "/") + 1, Len(p))

\* PurePath.parent as a string (of an absolute path with at least one "/")
ParentDir(p) == SubSeq(p, 1, RFind(p, "/") - 1)

\* PurePath.suffix : name[i:] when 0 < i < len(name) - 1 for i = name.rfind("."),
\* else the empty string
Suffix(p) ==
    LET name == BaseName(p)
        k    == RFind(name, ".")
    IN  IF 1 < k /\ k < Len(name) THEN SubSeq(name, k, Len(name)) ELSE << >>

\* os.path.join(a, b) for a relative b
PathJoin(a, b) == a \o <<"/">> \o b

\* os.path.isabs
IsAbs(p) == Len(p) > 0 /\ p[1] = "/"

-----------------------------------------------------------------------------
(* Configuration values                                                    *)

NullV == <<"null">>
IntV(n) == <<"int", n>>
StrV(s) == <<"str", s>>
SeqV(s) == <<"seq", s>>
MapV(f) == <<"map", f>>
EmptyMap == MapV([k \in {} |-> NullV])

IsMap(v) == v[1] = "map"
IsSeq(v) == v[1] = "seq"
Keys(v) == DOMAIN v[2]
Get(v, k) == v[2][k]

\* One-entry and two-entry mappings
Map1(k, v) == MapV(k :> v)
Map2(k1, v1, k2, v2) == MapV((k1 :> v1) @@ (k2 :> v2))

\* Python truth value of a decoded document: None, 0, "", [] and {} are false
Truthy(v) ==
    CASE v[1] = "null" -> FALSE
      [] v[1] = "int"  -> v[2] # 0
      [] v[1] = "str"  -> v[2] # ""
      [] v[1] = "seq"  -> Len(v[2]) > 0
      [] v[1] = "map"  -> DOMAIN v[2] # {}
      [] OTHER -> TRUE

\* the idiom  <parsed> or {}
OrEmptyDict(v) == IF Truthy(v) THEN v ELSE EmptyMap

-----------------------------------------------------------------------------
(* deep_merge (potato_util/_base.py), from its specification:              *)
(*   both mappings: union of the keys, a key of both sides merged          *)
(*   recursively, a key of one side copied; anything else: overlay wins.   *)

RECURSIVE deep_merge_keyed(_, _)
deep_merge_keyed(base, overlay) ==
    IF IsMap(base) /\ IsMap(overlay)
    THEN MapV([k \in Keys(base) \cup Keys(overlay) |->
                 IF k \in Keys(base) /\ k \in Keys(overlay)
                 THEN deep_merge_keyed(Get(base, k), Get(overlay, k))
                 ELSE IF k \in Keys(overlay) THEN Get(overlay, k)
                 ELSE Get(base, k)])
    ELSE overlay

\* dict.update: a key of both sides takes the overlay's value, no recursion
deep_merge_shallow(base, overlay) ==
    IF IsMap(base) /\ IsMap(overlay)
    THEN MapV([k \in Keys(base) \cup Keys(overlay) |->
                 IF k \in Keys(overlay) THEN Get(overlay, k) ELSE Get(base, k)])
    ELSE overlay

\* two sequences concatenated instead of replaced
RECURSIVE deep_merge_concat(_, _)
deep_merge_concat(base, overlay) ==
    IF IsMap(base) /\ IsMap(overlay)
    THEN MapV([k \in Keys(base) \cup Keys(overlay) |->
                 IF k \in Keys(base) /\ k \in Keys(overlay)
                 THEN deep_merge_concat(Get(base, k), Get(overlay, k))
                 ELSE IF k \in Keys(overlay) THEN Get(overlay, k)
                 ELSE Get(base, k)])
    ELSE IF IsSeq(base) /\ IsSeq(overlay) THEN SeqV(base[2] \o overlay[2])
    ELSE overlay

deep_merge(base, overlay) == deep_merge_keyed(base, overlay)

-----------------------------------------------------------------------------
(* Files and the parsers of the four formats                               *)

\* The content of a regular file: zero bytes, text no parser accepts, or the
\* text that denotes value v in the format it is read as.
EmptyContent == <<"empty">>
BadContent == <<"bad">>
DocContent(v) == <<"doc", v>>
\* An INI text: the options of its [DEFAULT] section and, per section name,
\* the options of the section; an option is name -> the text after "="
IniContent(defaults, sections) == <<"ini", defaults, sections>>

\* What a parser call gives: a value, or an exception
Parsed(v) == [ok |-> TRUE, val |-> v]
ParseError == [ok |-> FALSE, val |-> NullV]

\* yaml.safe_load : an empty stream is None
yaml_safe_load(c) ==
    CASE c[1] = "empty" -> Parsed(NullV)
      [] c[1] = "doc"   -> Parsed(c[2])
      [] OTHER          -> ParseError

\* json.load / json.loads : an empty text is a JSONDecodeError
json_load(c) ==
    CASE c[1] = "empty" -> ParseError
      [] c[1] = "doc"   -> Parsed(c[2])
      [] OTHER          -> ParseError

\* A TOML document is a table at the root and has no null
RECURSIVE HasNull(_)
HasNull(v) ==
    CASE v[1] = "null" -> TRUE
      [] v[1] = "seq"  -> \E k \in 1..Len(v[2]) : HasNull(v[2][k])
      [] v[1] = "map"  -> \E k \in DOMAIN v[2] : HasNull(v[2][k])
      [] OTHER         -> FALSE

\* tomllib.load / toml.load : an empty text is the empty table
toml_load(c) ==
    CASE c[1] = "empty" -> Parsed(EmptyMap)
      [] c[1] = "doc"   -> IF IsMap(c[2]) /\ ~HasNull(c[2]) THEN Parsed(c[2]) ELSE ParseError
      [] OTHER          -> ParseError

\* An INI text is sections of key = string lines
IsIniDoc(v) ==
    /\ IsMap(v)
    /\ \A s \in Keys(v) :
          /\ IsMap(Get(v, s))
          /\ \A k \in Keys(Get(v, s)) : Get(Get(v, s), k)[1] = "str"

\* optionxform: option names are lower-cased (names are one character here)
optionxform(k) == LowerChar(k)

\* strict mode: two options of one section with the same lower-cased name
\* are a DuplicateOptionError
HasDuplicateOption(opts) ==
    \E a, b \in DOMAIN opts : a # b /\ optionxform(a) = optionxform(b)

\* dict(_config_parser.items(_section)) with the values read as typed, as
\* getint would give them
section_items_coerced(defaults, opts) ==
    LET CoercedValue(text) == IF text = "1" THEN IntV(1) ELSE StrV(text)
        names == { optionxform(k) : k \in DOMAIN defaults \cup DOMAIN opts }
        own(n) == { k \in DOMAIN opts : optionxform(k) = n }
        dfl(n) == { k \in DOMAIN defaults : optionxform(k) = n }
    IN  MapV([n \in names |->
                IF own(n) # {} THEN CoercedValue(opts[CHOOSE k \in own(n) : TRUE])
                ELSE CoercedValue(defaults[CHOOSE k \in dfl(n) : TRUE])])

\* dict(_config_parser.items(_section)): the options of [DEFAULT] overridden
\* by the section's own, names lower-cased, every value the text as a str
section_items(defaults, opts) ==
    LET names == { optionxform(k) : k \in DOMAIN defaults \cup DOMAIN opts }
        own(n) == { k \in DOMAIN opts : optionxform(k) = n }
        dfl(n) == { k \in DOMAIN defaults : optionxform(k) = n }
    IN  MapV([n \in names |->
                IF own(n) # {} THEN StrV(opts[CHOOSE k \in own(n) : TRUE])
                ELSE StrV(defaults[CHOOSE k \in dfl(n) : TRUE])])

\* ConfigParser.read / read_string, then {section: dict(items(section))} over
\* sections(), which leaves [DEFAULT] out
ini_sections(c) ==
    CASE c[1] = "empty" -> Parsed(EmptyMap)
      [] c[1] = "bad"   -> ParseError
      [] c[1] = "ini"   ->
           IF HasDuplicateOption(c[2]) \/ \E s \in DOMAIN c[3] : HasDuplicateOption(c[3][s])
           THEN ParseError
           ELSE Parsed(MapV([s \in DOMAIN c[3] |-> section_items(c[2], c[3][s])]))
      [] OTHER          -> IF IsIniDoc(c[2])
                           THEN Parsed(MapV([s \in Keys(c[2]) |-> Get(c[2], s)]))
                           ELSE ParseError

\* os.path.isfile, os.path.isdir
isfile(f, p) == p \in DOMAIN f /\ f[p][1] = "file"
isdir(f, p) == p \in DOMAIN f /\ f[p][1] = "dir"

\* What a single-file load gives its caller.  err = "none": val is returned.
\* reads counts the opens of the file, decoder names the parser that ran,
\* ext is the extension an unsupported-format error names, source the file
\* path the error value names (<< >>: it names none).
Returned(v, dec) ==
    [err |-> "none", val |-> v, reads |-> 1, decoder |-> dec, ext |-> << >>,
     source |-> << >>]
RaisedNaming(e, n, dec, x, src) ==
    [err |-> e, val |-> NullV, reads |-> n, decoder |-> dec, ext |-> x, source |-> src]
Raised(e, n, dec, x) == RaisedNaming(e, n, dec, x, << >>)

\* raise FileNotFoundError(f"Not found '{file_path}' ... file!")
NotFound(p) == RaisedNaming("FileNotFoundError", 0, "none", << >>, p)

\* the body shared by the readers: parse, then `or {}`; the except clause
\* logs the path and re-raises the parser's error as it is, which names the
\* file only where the parser was given the file's name (src)
DecodeWith(r, dec, src) ==
    IF r.ok THEN Returned(OrEmptyDict(r.val), dec)
    ELSE RaisedNaming("DecodeError", 1, dec, << >>, src)

\* yaml.safe_load(_file): the marks of a YAML error name the stream, the
\* opened file
read_yaml_file(f, p) ==
    IF ~isfile(f, p) THEN NotFound(p)
    ELSE DecodeWith(yaml_safe_load(f[p][2]), "yaml", p)

\* json.load(_file): a JSONDecodeError holds message, document and position
read_json_file(f, p) ==
    IF ~isfile(f, p) THEN NotFound(p)
    ELSE DecodeWith(json_load(f[p][2]), "json", << >>)

read_toml_file(f, p, binary) ==
    IF ~isfile(f, p) THEN NotFound(p)
    ELSE IF binary THEN DecodeWith(toml_load(f[p][2]), "toml", << >>)
    ELSE DecodeWith(toml_load(f[p][2]), "toml", << >>)

\* _config_parser.read(file_path): a parsing error names the file read
read_ini_file(f, p) ==
    IF ~isfile(f, p) THEN NotFound(p)
    ELSE LET r == ini_sections(f[p][2])
         IN  IF r.ok THEN Returned(r.val, "ini")
             ELSE RaisedNaming("DecodeError", 1, "ini", << >>, p)

\* The extensions of the dispatch
EXT_YAML == <<".", "y", "a", "m", "l">>
EXT_YML == <<".", "y", "m", "l">>
EXT_JSON == <<".", "j", "s", "o", "n">>
EXT_TOML == <<".", "t", "o", "m", "l">>
EXT_INI == <<".", "i", "n", "i">>
EXT_CFG == <<".", "c", "f", "g">>

\* the suffix compared as written, without lower()
DispatchSuffixAsWritten(p) == Suffix(p)

\* _suffix = config_path.suffix.lower()
DispatchSuffix(p) == Lower(Suffix(p))

\* the dispatch on the suffix done before the isfile test
read_config_file_suffix_first(f, p, binary) ==
    LET _suffix == DispatchSuffix(p)
    IN  CASE _suffix \in {EXT_YAML, EXT_YML} -> read_yaml_file(f, p)
          [] _suffix = EXT_JSON              -> read_json_file(f, p)
          [] _suffix = EXT_TOML              -> read_toml_file(f, p, binary)
          [] _suffix \in {EXT_INI, EXT_CFG}  -> read_ini_file(f, p)
          [] OTHER -> RaisedNaming("ValueError", 0, "none", Suffix(p), p)

read_config_file(f, p, binary) ==
    IF ~isfile(f, p) THEN NotFound(p)
    ELSE LET _suffix == DispatchSuffix(p)
         IN  CASE _suffix \in {EXT_YAML, EXT_YML} -> read_yaml_file(f, p)
               [] _suffix = EXT_JSON              -> read_json_file(f, p)
               [] _suffix = EXT_TOML              -> read_toml_file(f, p, binary)
               [] _suffix \in {EXT_INI, EXT_CFG}  -> read_ini_file(f, p)
               [] OTHER -> RaisedNaming("ValueError", 0, "none", Suffix(p), p)

\* ---- potato_util/io/_async.py: the same readers, the file read as a whole
\* and the text handed to the parser

async_read_yaml_file(f, p) ==
    IF ~isfile(f, p) THEN NotFound(p)
    ELSE DecodeWith(yaml_safe_load(f[p][2]), "yaml", << >>)

async_read_json_file(f, p) ==
    IF ~isfile(f, p) THEN NotFound(p)
    ELSE DecodeWith(json_load(f[p][2]), "json", << >>)

\* with _binary_toml the content is read as bytes and tomllib.loads, which
\* takes a str only, raises TypeError
async_read_toml_file(f, p, binary) ==
    IF ~isfile(f, p) THEN NotFound(p)
    ELSE IF binary THEN Raised("TypeError", 1, "toml", << >>)
    ELSE DecodeWith(toml_load(f[p][2]), "toml", << >>)

async_read_ini_file(f, p) ==
    IF ~isfile(f, p) THEN NotFound(p)
    ELSE LET r == ini_sections(f[p][2])
         IN  IF r.ok THEN Returned(r.val, "ini")
             ELSE Raised("DecodeError", 1, "ini", << >>)

async_read_config_file(f, p, binary) ==
    IF ~isfile(f, p) THEN NotFound(p)
    ELSE LET _suffix == DispatchSuffix(p)
         IN  CASE _suffix \in {EXT_YAML, EXT_YML} -> async_read_yaml_file(f, p)
               [] _suffix = EXT_JSON              -> async_read_json_file(f, p)
               [] _suffix = EXT_TOML              -> async_read_toml_file(f, p, binary)
               [] _suffix \in {EXT_INI, EXT_CFG}  -> async_read_ini_file(f, p)
               [] OTHER -> RaisedNaming("ValueError", 0, "none", _suffix, p)

-----------------------------------------------------------------------------
(* read_all_configs: discovery, sort, fold                                 *)

\* if not os.path.isabs(_config_dir): os.path.join(os.getcwd(), _config_dir)
resolve_dir(cwd, d) == IF IsAbs(d) THEN d ELSE PathJoin(cwd, d)

\* fnmatch of a name against "*" + ext, as glob applies it: the name ends
\* with ext (case kept) and a name that starts with "." is not matched by "*"
glob_match(name, ext) ==
    /\ Len(name) >= Len(ext)
    /\ SubSeq(name, Len(name) - Len(ext) + 1, Len(name)) = ext
    /\ name[1] # "."

\* the matching children of d that are regular files
glob_set_files_only(f, d, ext) ==
    { p \in DOMAIN f : ParentDir(p) = d /\ glob_match(BaseName(p), ext) /\ isfile(f, p) }

\* the entries glob.glob(os.path.join(d, "*" + ext)) finds: the immediate
\* children of d, of any file type, whose name matches
glob_set(f, d, ext) ==
    { p \in DOMAIN f : ParentDir(p) = d /\ glob_match(BaseName(p), ext) }

\* every order of a finite set: glob returns its matches in directory order
Orders(S) ==
    { q \in [1..Cardinality(S) -> S] : \A a, b \in 1..Cardinality(S) : a # b => q[a] # q[b] }

\* the lists one glob call may return
glob(f, d, ext) == Orders(glob_set(f, d, ext))

\* the globs of a format run whether or not the format is allowed
glob_if_unfiltered(allowed, fmt, f, d, ext) == glob(f, d, ext)

\* the lists the globs of one format may add, when the format is allowed
glob_if(allowed, fmt, f, d, ext) ==
    IF fmt \in allowed THEN glob(f, d, ext) ELSE { << >> }

\* a missing directory rejected with an error
discover_dir_strict(f, d, allowed) ==
    IF isdir(f, d)
    THEN { [err |-> "none", paths |-> q[1] \o q[2] \o q[3] \o q[4] \o q[5] \o q[6]] :
             q \in glob_if(allowed, "YAML", f, d, EXT_YAML)
                   \X glob_if(allowed, "YAML", f, d, EXT_YML)
                   \X glob_if(allowed, "JSON", f, d, EXT_JSON)
                   \X glob_if(allowed, "TOML", f, d, EXT_TOML)
                   \X glob_if(allowed, "INI", f, d, EXT_INI)
                   \X glob_if(allowed, "INI", f, d, EXT_CFG) }
    ELSE { [err |-> "FileNotFoundError", paths |-> << >>] }

\* one pass of the discovery loop over a resolved directory: what it may add
\* to _file_paths; nothing when the directory does not exist
discover_dir(f, d, allowed) ==
    IF isdir(f, d)
    THEN { [err |-> "none", paths |-> q[1] \o q[2] \o q[3] \o q[4] \o q[5] \o q[6]] :
             q \in glob_if(allowed, "YAML", f, d, EXT_YAML)
                   \X glob_if(allowed, "YAML", f, d, EXT_YML)
                   \X glob_if(allowed, "JSON", f, d, EXT_JSON)
                   \X glob_if(allowed, "TOML", f, d, EXT_TOML)
                   \X glob_if(allowed, "INI", f, d, EXT_INI)
                   \X glob_if(allowed, "INI", f, d, EXT_CFG) }
    ELSE { [err |-> "none", paths |-> << >>] }

\* list.sort() on strings: ascending code-point order
RECURSIVE insert_sorted(_, _)
insert_sorted(x, s) ==
    IF s = << >> THEN <<x>>
    ELSE IF StrLess(s[1], x) THEN <<s[1]>> \o insert_sorted(x, Tail(s))
    ELSE <<x>> \o s

RECURSIVE sorted_list(_)
sorted_list(s) == IF s = << >> THEN << >> ELSE insert_sorted(s[1], sorted_list(Tail(s)))

\* the paths left in the order the globs gave them
sort_paths_omitted(s) == s

\* the list sorted in descending order
sort_paths_descending(s) ==
    [i \in 1..Len(s) |-> sorted_list(s)[Len(s) + 1 - i]]

\* _file_paths.sort()
sort_paths(s) == sorted_list(s)

\* a failing file skipped, the fold going on
fold_step_best_effort(acc, r) ==
    IF r.err = "none"
    THEN [raised |-> FALSE, acc |-> deep_merge(acc, r.val)]
    ELSE [raised |-> FALSE, acc |-> acc]

\* the merged value computed and dropped
fold_step_result_dropped(acc, r) ==
    [raised |-> r.err # "none", acc |-> acc]

\* one pass of the load loop, given what read_config_file gave:
\* _config_dict = deep_merge(_config_dict, _config_data), or the exception
fold_step(acc, r) ==
    IF r.err = "none"
    THEN [raised |-> FALSE, acc |-> deep_merge(acc, r.val)]
    ELSE [raised |-> TRUE, acc |-> acc]

-----------------------------------------------------------------------------
(* Bounded inputs                                                          *)

\* longest sequence among the leaf values
MaxSeqLen == 1

SeqLeaves == { SeqV([k \in 1..n |-> IntV(1)]) : n \in 1..MaxSeqLen }
Leaves == {NullV, IntV(1)} \cup SeqLeaves

MergeKeys == {"p", "q"}

MapsOver(K, V) == UNION { { MapV(f) : f \in [D -> V] } : D \in SUBSET K }

\* mappings of leaves, and mappings of leaves and of mappings of leaves
Maps1 == MapsOver(MergeKeys, Leaves)
Maps2 == MapsOver(MergeKeys, Leaves \cup Maps1)
MergeValues == Leaves \cup Maps2

\* the nested example of the specification's testable properties
ExampleBase == Map1("x", Map2("p", IntV(1), "q", IntV(2)))
ExampleOverlay == Map1("x", Map2("q", IntV(20), "r", IntV(3)))
ExampleMerged == Map1("x", MapV(("p" :> IntV(1)) @@ ("q" :> IntV(20)) @@ ("r" :> IntV(3))))

\* the arguments of examples/simple/main.py
MainDict1 ==
    MapV(("a" :> IntV(1)) @@ ("b" :> Map2("c", IntV(2), "d", IntV(3)))
         @@ ("g" :> SeqV(<<IntV(2), IntV(3), IntV(4)>>)))
MainDict2 ==
    MapV(("b" :> Map2("c", IntV(20), "e", IntV(30))) @@ ("f" :> IntV(40))
         @@ ("g" :> SeqV(<<IntV(5), IntV(6), IntV(7)>>)))

MergePairs ==
    (MergeValues \X MergeValues)
        \cup {<<ExampleBase, ExampleOverlay>>, <<MainDict1, MainDict2>>}

\* ---- paths.  The working directory is /w; /w/a and /w/a- are directories.
CWD == <<"/", "w">>
DIR_A == <<"/", "w", "/", "a">>
DIR_A2 == <<"/", "w", "/", "a", "-">>
DIR_NONE == <<"/", "w", "/", "n">>
REL_A == <<"a">>

In(d, name) == PathJoin(d, name)

N_a_yaml == <<"a", ".", "y", "a", "m", "l">>
N_b_yml == <<"b", ".", "y", "m", "l">>
N_c_json == <<"c", ".", "j", "s", "o", "n">>
N_d_toml == <<"d", ".", "t", "o", "m", "l">>
N_e_ini == <<"e", ".", "i", "n", "i">>
N_f_cfg == <<"f", ".", "c", "f", "g">>
N_g_txt == <<"g", ".", "t", "x", "t">>
N_k == <<"k">>
N_a_YAML == <<"a", ".", "Y", "A", "M", "L">>
N_b_Yml == <<"b", ".", "Y", "m", "l">>
N_dot_yaml == <<".", "y", "a", "m", "l">>
N_z_yaml == <<"z", ".", "y", "a", "m", "l">>

\* the paths a single-file load is tried on
LoadPaths ==
    { In(DIR_A, n) : n \in { N_a_yaml, N_b_yml, N_c_json, N_d_toml, N_e_ini, N_f_cfg,
                             N_g_txt, N_k, N_a_YAML, N_b_Yml, N_dot_yaml } }

\* the documents a file may denote: mappings, a sequence, scalars, null,
\* and the two-level string mappings an INI text denotes
DocValues ==
    { EmptyMap,
      Map1("k", IntV(1)),
      Map1("k", Map1("p", IntV(1))),
      SeqV(<<IntV(1)>>),
      SeqV(<< >>),
      IntV(1),
      IntV(0),
      NullV,
      Map1("s", Map1("k", StrV("v"))),
      Map1("s", EmptyMap) }

\* INI texts: an optional [DEFAULT] option, and sections s and t with no
\* option, one option, an upper-case option name, or a name given twice
NoOptions == [k \in {} |-> ""]
IniDefaults == { NoOptions, ("y" :> "1") }
IniOptionSets ==
    { NoOptions, ("a" :> "1"), (("A" :> "") @@ ("y" :> "v")), (("a" :> "1") @@ ("A" :> "v")) }
IniTexts ==
    { IniContent(d, secs) :
        d \in IniDefaults,
        secs \in UNION { [S -> IniOptionSets] : S \in SUBSET {"s", "t"} } }

LoadContents ==
    {EmptyContent, BadContent} \cup { DocContent(v) : v \in DocValues } \cup IniTexts

\* ---- inputs of read_all_configs

\* most directory inputs of one call
MaxDirs == 2
\* most files in the filesystem
MaxFiles == 2

\* a directory input: absolute, relative to the working directory, missing
DirInputs == {DIR_A, REL_A, DIR_A2, DIR_NONE}

DirLists == UNION { [1..n -> DirInputs] : n \in 0..MaxDirs }

FMT_DEFAULT == {"YAML", "JSON", "TOML"}
AllowLists == { FMT_DEFAULT, {"YAML", "INI"} }

\* the files that may exist
FileCandidates ==
    { In(DIR_A, N_a_yaml), In(DIR_A, N_z_yaml), In(DIR_A, N_c_json),
      In(DIR_A, N_e_ini), In(DIR_A2, N_b_yml) }

DOC_K1 == DocContent(Map1("k", IntV(1)))
DOC_K2 == DocContent(Map2("k", IntV(2), "j", Map1("p", IntV(1))))
DOC_INI == DocContent(Map1("s", Map1("k", StrV("v"))))

\* what may be at a candidate path: a regular file with a content, and at
\* /w/a/z.yaml also a directory of that name
EntriesFor(p) ==
    CASE p = In(DIR_A, N_a_yaml) ->
           { <<"file", DOC_K1>>, <<"file", DOC_K2>>, <<"file", BadContent>>,
             <<"file", EmptyContent>> }
      [] p = In(DIR_A, N_z_yaml) ->
           { <<"file", DOC_K1>>, <<"file", BadContent>>, <<"dir">> }
      [] p = In(DIR_A, N_c_json) ->
           { <<"file", DOC_K1>>, <<"file", EmptyContent>> }
      [] p = In(DIR_A, N_e_ini) ->
           { <<"file", DOC_INI>>, <<"file", BadContent>> }
      [] OTHER ->
           { <<"file", DOC_K2>>, <<"file", BadContent>> }

AllEntries == UNION { EntriesFor(p) : p \in FileCandidates }

\* entries no glob of the discovery selects: a file in a nested directory,
\* a file of another extension, a hidden name, an upper-case extension
DIR_SUB == In(DIR_A, <<"d">>)
N_x_yaml == <<"x", ".", "y", "a", "m", "l">>
Bystanders ==
    (DIR_SUB :> <<"dir">>) @@ (In(DIR_SUB, N_x_yaml) :> <<"file", DOC_K1>>)
        @@ (In(DIR_A, N_g_txt) :> <<"file", DOC_K1>>)
        @@ (In(DIR_A, N_dot_yaml) :> <<"file", DOC_K1>>)
        @@ (In(DIR_A, N_a_YAML) :> <<"file", DOC_K1>>)

\* the two directories, the bystanders, and at most MaxFiles entries more
Filesystems ==
    { (DIR_A :> <<"dir">>) @@ (DIR_A2 :> <<"dir">>) @@ Bystanders @@ children :
        children \in UNION { { x \in [S -> AllEntries] : \A p \in S : x[p] \in EntriesFor(p) } :
                             S \in { T \in SUBSET FileCandidates : Cardinality(T) <= MaxFiles } } }

-----------------------------------------------------------------------------
(* Idle values of the three calls                                          *)

EmptyFs == [p \in {} |-> <<"dir">>]

AggIdle ==
    /\ configs_dir = << >>
    /\ allowed_formats = {}
    /\ pc = "idle"
    /\ dir_idx = 0
    /\ file_paths = << >>
    /\ file_idx = 0
    /\ config_dict = EmptyMap
    /\ outcome = <<"pending">>
    /\ loaded = << >>

LoadIdle ==
    /\ config_path = << >>
    /\ load_pc = "idle"
    /\ load_res = Raised("none", 0, "none", << >>)

MergeIdle ==
    /\ dict1 = NullV
    /\ dict2 = NullV
    /\ merge_pc = "idle"
    /\ merged = NullV

SumIdle ==
    /\ chunk_size = 0
    /\ sum_pc = "idle"
    /\ sum_opens = 0
    /\ sum_read = 0
    /\ sum_res = <<"pending">>

MkIdle ==
    /\ mk_pc = "idle"
    /\ mk_res = [kind |-> "pending", err |-> "none", errno |-> "none", found |-> "none"]

UtilIdle ==
    /\ util_path = << >>
    /\ warn_mode = "DEBUG"
    /\ SumIdle
    /\ MkIdle

-----------------------------------------------------------------------------
(* A call of deep_merge                                                    *)

InitMerge ==
    /\ UtilIdle
    /\ fs = EmptyFs
    /\ binary_toml = TRUE
    /\ AggIdle
    /\ LoadIdle
    /\ \E pair \in MergePairs : dict1 = pair[1] /\ dict2 = pair[2]
    /\ merge_pc = "ready"
    /\ merged = NullV

\* _merged_dict = potato_util.deep_merge(_dict1, _dict2)
MergeCall ==
    /\ merge_pc = "ready"
    /\ merged' = deep_merge(dict1, dict2)
    /\ merge_pc' = "done"
    /\ UNCHANGED <<utilVars, fs, binary_toml, aggVars, loadVars, dict1, dict2>>

NextMerge == MergeCall

SpecMerge == InitMerge /\ [][NextMerge]_vars

-----------------------------------------------------------------------------
(* Properties of deep_merge                                                *)

\* m combines b and o key by key, at every nesting depth
RECURSIVE KeyedUnion(_, _, _)
KeyedUnion(b, o, m) ==
    IF IsMap(b) /\ IsMap(o)
    THEN /\ IsMap(m)
         /\ Keys(m) = Keys(b) \cup Keys(o)
         /\ \A k \in Keys(b) \ Keys(o) : Get(m, k) = Get(b, k)
         /\ \A k \in Keys(o) \ Keys(b) : Get(m, k) = Get(o, k)
         /\ \A k \in Keys(b) \cap Keys(o) : KeyedUnion(Get(b, k), Get(o, k), Get(m, k))
    ELSE TRUE

\* C6: the merge of two mappings has the union of the keys; a key of one side
\* keeps that side's value, a key of both sides carries the merge of the two
\* values, at every nesting depth; the specification's nested example holds.
C6_MergeKeyedUnion ==
    (merge_pc = "done" /\ IsMap(dict1) /\ IsMap(dict2)) =>
        /\ KeyedUnion(dict1, dict2, merged)
        /\ \A k \in Keys(dict1) \cap Keys(dict2) :
              Get(merged, k) = deep_merge(Get(dict1, k), Get(dict2, k))
        /\ (dict1 = ExampleBase /\ dict2 = ExampleOverlay) => merged = ExampleMerged

C6_Witness ==
    /\ merge_pc = "done"
    /\ dict1 = ExampleBase
    /\ dict2 = ExampleOverlay
    /\ merged = ExampleMerged

\* at every position where the two sides are not both mappings, m is o
RECURSIVE OverlayWins(_, _, _)
OverlayWins(b, o, m) ==
    IF IsMap(b) /\ IsMap(o)
    THEN /\ IsMap(m)
         /\ \A k \in Keys(b) \cap Keys(o) :
               k \in Keys(m) /\ OverlayWins(Get(b, k), Get(o, k), Get(m, k))
    ELSE m = o

\* C7: when base and overlay are not both mappings the merge is the overlay:
\* a sequence replaces a sequence, a scalar replaces anything, a mapping
\* replaces a non-mapping, and null replaces too.
C7_OverlayReplaces ==
    merge_pc = "done" =>
        /\ ~(IsMap(dict1) /\ IsMap(dict2)) => merged = dict2
        /\ OverlayWins(dict1, dict2, merged)

C7_Witness ==
    /\ merge_pc = "done"
    /\ dict1 = MainDict1
    /\ dict2 = MainDict2
    /\ Get(merged, "g") = SeqV(<<IntV(5), IntV(6), IntV(7)>>)
    /\ Get(merged, "a") = IntV(1)

-----------------------------------------------------------------------------
(* A call of read_config_file or of async_read_config_file                 *)

InitLoad ==
    /\ UtilIdle
    /\ binary_toml \in BOOLEAN
    /\ AggIdle
    /\ MergeIdle
    /\ config_path \in LoadPaths
    /\ \/ fs = EmptyFs
       \/ fs = (config_path :> <<"dir">>)
       \/ \E c \in LoadContents : fs = (config_path :> <<"file", c>>)
    /\ load_pc = "ready"
    /\ load_res = Raised("none", 0, "none", << >>)

ReadConfigFile ==
    /\ load_pc = "ready"
    /\ load_res' = read_config_file(fs, config_path, binary_toml)
    /\ load_pc' = "sync_done"
    /\ UNCHANGED <<utilVars, fs, binary_toml, aggVars, mergeVars, config_path>>

AsyncReadConfigFile ==
    /\ load_pc = "ready"
    /\ load_res' = async_read_config_file(fs, config_path, binary_toml)
    /\ load_pc' = "async_done"
    /\ UNCHANGED <<utilVars, fs, binary_toml, aggVars, mergeVars, config_path>>

NextLoad == ReadConfigFile \/ AsyncReadConfigFile

SpecLoad == InitLoad /\ [][NextLoad]_vars

LoadDone == load_pc \in {"sync_done", "async_done"}


-----------------------------------------------------------------------------
(* Properties of the single-file loader                                    *)

\* C4: a path that is no existing regular file (missing, or a directory) fails
\* with the not-found error whatever its extension, with no read of the file
\* and no decoder run; in the synchronous and in the asynchronous loader.
C4_NotFoundBeforeAnything ==
    (LoadDone /\ ~isfile(fs, config_path)) =>
        /\ load_res.err = "FileNotFoundError"
        /\ load_res.reads = 0
        /\ load_res.decoder = "none"

\* a directory whose name has an unsupported extension: not found, not unsupported
C4_Witness ==
    /\ load_pc = "sync_done"
    /\ config_path = In(DIR_A, N_g_txt)
    /\ isdir(fs, config_path)
    /\ load_res.err = "FileNotFoundError"
    /\ load_res.reads = 0

\* two strings equal up to the case of their letters
SameIgnoringCase(s, t) ==
    /\ Len(s) = Len(t)
    /\ \A k \in 1..Len(s) : LowerChar(s[k]) = LowerChar(t[k])

\* the format table of the specification
FormatOfExtension(x) ==
    CASE SameIgnoringCase(x, EXT_YAML) \/ SameIgnoringCase(x, EXT_YML) -> "yaml"
      [] SameIgnoringCase(x, EXT_JSON) -> "json"
      [] SameIgnoringCase(x, EXT_TOML) -> "toml"
      [] SameIgnoringCase(x, EXT_INI) \/ SameIgnoringCase(x, EXT_CFG) -> "ini"
      [] OTHER -> "none"

\* C5: for an existing regular file the decoder is the one of the extension,
\* compared without regard to case; any other extension, and no extension,
\* fails with the unsupported-format error naming the extension, no decoder run.
C5_DispatchByExtension ==
    (LoadDone /\ isfile(fs, config_path)) =>
        LET fmt == FormatOfExtension(Suffix(config_path))
        IN  /\ load_res.decoder = fmt
            /\ fmt # "none" => load_res.err \notin {"ValueError", "FileNotFoundError"}
            /\ fmt = "none" =>
                  /\ load_res.err = "ValueError"
                  /\ load_res.reads = 0
                  /\ SameIgnoringCase(load_res.ext, Suffix(config_path))

\* an upper-case .YAML file is decoded as YAML
C5_Witness ==
    /\ load_pc = "sync_done"
    /\ config_path = In(DIR_A, N_a_YAML)
    /\ isfile(fs, config_path)
    /\ load_res.decoder = "yaml"
    /\ load_res.err = "none"
    /\ load_res.val = Map1("k", IntV(1))

\* C9: for each of the four formats, loading an existing file of zero bytes
\* succeeds and returns the empty mapping.
C9_EmptyFileIsEmptyMapping ==
    ( /\ load_pc = "sync_done"
      /\ isfile(fs, config_path)
      /\ fs[config_path][2] = EmptyContent
      /\ FormatOfExtension(Suffix(config_path)) # "none" ) =>
        /\ load_res.err = "none"
        /\ load_res.val = EmptyMap

\* C10: every successful single-file load returns a mapping at the root.
C10_LoadReturnsMapping ==
    (load_pc = "sync_done" /\ load_res.err = "none") => IsMap(load_res.val)


-----------------------------------------------------------------------------
(* A call of read_all_configs                                              *)

Init ==
    /\ UtilIdle
    /\ fs \in Filesystems
    /\ binary_toml = TRUE
    /\ LoadIdle
    /\ MergeIdle
    /\ configs_dir \in DirLists
    /\ allowed_formats \in AllowLists
    /\ pc = "discover"
    /\ dir_idx = 1
    /\ file_paths = << >>
    /\ file_idx = 0
    /\ config_dict = EmptyMap
    /\ outcome = <<"pending">>
    /\ loaded = << >>

\* one pass of  for _config_dir in configs_dir
DiscoverDir ==
    /\ pc = "discover"
    /\ dir_idx <= Len(configs_dir)
    /\ \E r \in discover_dir(fs, resolve_dir(CWD, configs_dir[dir_idx]), allowed_formats) :
          IF r.err = "none"
          THEN /\ file_paths' = file_paths \o r.paths
               /\ dir_idx' = dir_idx + 1
               /\ UNCHANGED <<pc, outcome>>
          ELSE /\ pc' = "failed"
               /\ outcome' = <<"raise", r.err, configs_dir[dir_idx]>>
               /\ UNCHANGED <<file_paths, dir_idx>>
    /\ UNCHANGED <<utilVars, fs, binary_toml, loadVars, mergeVars, configs_dir, allowed_formats,
                   file_idx, config_dict, loaded>>

\* _file_paths.sort()
SortPaths ==
    /\ pc = "discover"
    /\ dir_idx > Len(configs_dir)
    /\ file_paths' = sort_paths(file_paths)
    /\ file_idx' = 1
    /\ pc' = "load"
    /\ UNCHANGED <<utilVars, fs, binary_toml, loadVars, mergeVars, configs_dir, allowed_formats,
                   dir_idx, config_dict, outcome, loaded>>

\* one pass of  for _file_path in _file_paths
LoadFile ==
    /\ pc = "load"
    /\ file_idx <= Len(file_paths)
    /\ LET path == file_paths[file_idx]
           r    == read_config_file(fs, path, binary_toml)
           step == fold_step(config_dict, r)
       IN  /\ loaded' = Append(loaded, [path |-> path, err |-> r.err, val |-> r.val])
           /\ IF step.raised
              THEN /\ pc' = "failed"
                   /\ outcome' = <<"raise", r.err, path>>
                   /\ UNCHANGED <<config_dict, file_idx>>
              ELSE /\ config_dict' = step.acc
                   /\ file_idx' = file_idx + 1
                   /\ UNCHANGED <<pc, outcome>>
    /\ UNCHANGED <<utilVars, fs, binary_toml, loadVars, mergeVars, configs_dir, allowed_formats,
                   dir_idx, file_paths>>

\* return _config_dict
ReturnConfig ==
    /\ pc = "load"
    /\ file_idx > Len(file_paths)
    /\ pc' = "done"
    /\ outcome' = <<"return", config_dict>>
    /\ UNCHANGED <<utilVars, fs, binary_toml, loadVars, mergeVars, configs_dir, allowed_formats,
                   dir_idx, file_paths, file_idx, config_dict, loaded>>

Next == DiscoverDir \/ SortPaths \/ LoadFile \/ ReturnConfig

Spec == Init /\ [][Next]_vars


-----------------------------------------------------------------------------
(* A call of get_file_checksum                                             *)

WARN_MODES == {"ERROR", "ALWAYS", "DEBUG", "IGNORE"}

\* if chunk_size < 10: raise ValueError
CHUNK_SIZE_MIN == 10

\* a file of n bytes
BytesContent(n) == <<"bytes", n>>

\* len(path) >= 1 after strip(); every path here is shorter than
\* MAX_PATH_LENGTH
path_in_range(p) == Len(p) >= 1

\* the chunk_size test of get_file_checksum and async_get_file_checksum
chunk_size_rejected(n) == n < CHUNK_SIZE_MIN

\* the digest of the bytes fed to the hash: one per number of leading bytes
hexdigest(n) == <<"digest", n>>

ChunkSpread == 2
ChunkSizes == (CHUNK_SIZE_MIN - ChunkSpread)..(CHUNK_SIZE_MIN + ChunkSpread)
MaxFileBytes == 25

SUM_FILE == In(DIR_A, N_k)

InitChecksum ==
    /\ binary_toml = TRUE
    /\ AggIdle
    /\ LoadIdle
    /\ MergeIdle
    /\ MkIdle
    /\ util_path \in {<< >>, SUM_FILE}
    /\ warn_mode \in WARN_MODES
    /\ chunk_size \in ChunkSizes
    /\ \/ fs = EmptyFs
       \/ fs = (SUM_FILE :> <<"dir">>)
       \/ \E n \in 0..MaxFileBytes : fs = (SUM_FILE :> <<"file", BytesContent(n)>>)
    /\ sum_pc = "validate"
    /\ sum_opens = 0
    /\ sum_read = 0
    /\ sum_res = <<"pending">>

\* the argument tests at the head of the function
ChecksumValidate ==
    /\ sum_pc = "validate"
    /\ IF ~path_in_range(util_path)
       THEN sum_pc' = "raised" /\ sum_res' = <<"raise", "ValueError", "file_path">>
       ELSE IF chunk_size_rejected(chunk_size)
       THEN sum_pc' = "raised" /\ sum_res' = <<"raise", "ValueError", "chunk_size">>
       ELSE sum_pc' = "open" /\ UNCHANGED sum_res
    /\ UNCHANGED <<fs, binary_toml, aggVars, loadVars, mergeVars, mkVars, util_path,
                   warn_mode, chunk_size, sum_opens, sum_read>>

\* if os.path.isfile(file_path): open(file_path, "rb"); else by warn_mode
ChecksumOpen ==
    /\ sum_pc = "open"
    /\ IF isfile(fs, util_path)
       THEN sum_pc' = "read" /\ sum_opens' = sum_opens + 1 /\ UNCHANGED sum_res
       ELSE IF warn_mode = "ERROR"
       THEN sum_pc' = "raised" /\ sum_res' = <<"raise", "OSError", "ENOENT">>
                               /\ UNCHANGED sum_opens
       ELSE sum_pc' = "returned" /\ sum_res' = <<"return", NullV>> /\ UNCHANGED sum_opens
    /\ UNCHANGED <<fs, binary_toml, aggVars, loadVars, mergeVars, mkVars, util_path,
                   warn_mode, chunk_size, sum_read>>

\* one pass of the while loop: _file.read(chunk_size), update or break
ChecksumReadChunk ==
    /\ sum_pc = "read"
    /\ LET left  == fs[util_path][2][2] - sum_read
           chunk == IF left < chunk_size THEN left ELSE chunk_size
       IN  IF chunk = 0
           THEN /\ sum_pc' = "returned"
                /\ sum_res' = <<"return", hexdigest(sum_read)>>
                /\ UNCHANGED sum_read
           ELSE /\ sum_read' = sum_read + chunk
                /\ UNCHANGED <<sum_pc, sum_res>>
    /\ UNCHANGED <<fs, binary_toml, aggVars, loadVars, mergeVars, mkVars, util_path,
                   warn_mode, chunk_size, sum_opens>>

NextChecksum == ChecksumValidate \/ ChecksumOpen \/ ChecksumReadChunk

SpecChecksum == InitChecksum /\ [][NextChecksum]_vars


-----------------------------------------------------------------------------
(* A call of create_dir, beside other processes that create entries        *)

\* the working directory exists; below it, what the filesystem holds
exists(f, p) == p = CWD \/ p \in DOMAIN f
is_directory(f, p) == p = CWD \/ isdir(f, p)

\* os.mkdir: errno and the filesystem after it
mkdir(f, name) ==
    IF exists(f, name) THEN [errno |-> "EEXIST", fs |-> f]
    ELSE IF ~exists(f, ParentDir(name)) THEN [errno |-> "ENOENT", fs |-> f]
    ELSE IF ~is_directory(f, ParentDir(name)) THEN [errno |-> "ENOTDIR", fs |-> f]
    ELSE [errno |-> "none", fs |-> f @@ (name :> <<"dir">>)]

\* os.makedirs(name): the missing parents are made first, a FileExistsError
\* of that part is passed over, then mkdir(name)
RECURSIVE makedirs(_, _)
makedirs(f, name) ==
    IF exists(f, ParentDir(name)) THEN mkdir(f, name)
    ELSE LET heads == makedirs(f, ParentDir(name))
         IN  IF heads.errno \in {"none", "EEXIST"} THEN mkdir(heads.fs, name)
             ELSE heads

MkResult(k, e, no, met) == [kind |-> k, err |-> e, errno |-> no, found |-> met]

\* what is at a path
EntryKind(f, p) == IF p \notin DOMAIN f THEN "absent" ELSE f[p][1]

MK_DIR == DIR_NONE
MK_SUB == In(DIR_NONE, <<"d">>)
MkTargets == {MK_DIR, MK_SUB}
NewEntries == { <<"dir">>, <<"file", EmptyContent>> }

\* the entries below the working directory before the call
MkFilesystems ==
    {EmptyFs}
        \cup { (MK_DIR :> e) : e \in NewEntries }
        \cup { (MK_DIR :> <<"dir">>) @@ (MK_SUB :> e) : e \in NewEntries }

InitCreateDir ==
    /\ binary_toml = TRUE
    /\ AggIdle
    /\ LoadIdle
    /\ MergeIdle
    /\ SumIdle
    /\ util_path \in {<< >>} \cup MkTargets
    /\ warn_mode \in WARN_MODES
    /\ fs \in MkFilesystems
    /\ mk_pc = "check"
    /\ mk_res = MkResult("pending", "none", "none", "none")

\* the argument test and  if not os.path.isdir(create_dir) ... elif ERROR
CreateDirCheck ==
    /\ mk_pc = "check"
    /\ IF ~path_in_range(util_path)
       THEN mk_pc' = "raised" /\ mk_res' = MkResult("raise", "ValueError", "none", "none")
       ELSE IF ~isdir(fs, util_path)
       THEN mk_pc' = "make" /\ UNCHANGED mk_res
       ELSE IF warn_mode = "ERROR"
       THEN mk_pc' = "raised" /\ mk_res' = MkResult("raise", "OSError", "EEXIST", "none")
       ELSE mk_pc' = "returned" /\ mk_res' = MkResult("return", "none", "none", "none")
    /\ UNCHANGED <<fs, binary_toml, aggVars, loadVars, mergeVars, sumVars, util_path,
                   warn_mode>>

\* os.makedirs(create_dir); an OSError with EEXIST is passed over in DEBUG
\* mode and raised in the other modes, any other OSError is raised
CreateDirMake ==
    /\ mk_pc = "make"
    /\ LET made == makedirs(fs, util_path)
           met  == EntryKind(fs, util_path)
       IN  IF made.errno = "none"
           THEN /\ fs' = made.fs
                /\ mk_pc' = "returned"
                /\ mk_res' = MkResult("return", "none", "none", met)
           ELSE IF made.errno = "EEXIST" /\ warn_mode = "DEBUG"
           THEN /\ fs' = made.fs
                /\ mk_pc' = "returned"
                /\ mk_res' = MkResult("return", "none", "EEXIST", met)
           ELSE /\ fs' = made.fs
                /\ mk_pc' = "raised"
                /\ mk_res' = MkResult("raise", "OSError", made.errno, met)
    /\ UNCHANGED <<binary_toml, aggVars, loadVars, mergeVars, sumVars, util_path,
                   warn_mode>>

\* another process or coroutine creates a directory or a regular file at a
\* free path while the call is between its entry and its makedirs
OtherCreates ==
    /\ mk_pc \in {"check", "make"}
    /\ \E p \in MkTargets, e \in NewEntries :
          /\ ~exists(fs, p)
          /\ is_directory(fs, ParentDir(p))
          /\ fs' = fs @@ (p :> e)
    /\ UNCHANGED <<binary_toml, aggVars, loadVars, mergeVars, utilVars>>

NextCreateDir == CreateDirCheck \/ CreateDirMake \/ OtherCreates

SpecCreateDir == InitCreateDir /\ [][NextCreateDir]_vars


\* another process removes a listed regular file before the call loads it
OtherRemoves ==
    /\ pc \in {"discover", "load"}
    /\ \E i \in 1..Len(file_paths) :
          /\ pc = "load" => i >= file_idx
          /\ isfile(fs, file_paths[i])
          /\ fs' = [p \in DOMAIN fs \ {file_paths[i]} |-> fs[p]]
    /\ UNCHANGED <<utilVars, binary_toml, aggVars, loadVars, mergeVars>>

NextRace == Next \/ OtherRemoves

\* a call of read_all_configs beside a process that removes files
SpecRace == Init /\ [][NextRace]_vars


\* the three calls side by side
InitAll == Init \/ InitLoad \/ InitMerge

NextAll == Next \/ NextLoad \/ NextMerge

SpecAll == InitAll /\ [][NextAll]_vars

-----------------------------------------------------------------------------
(* Properties of read_all_configs                                          *)

\* the directories of the list, resolved
ResolvedDirs(dirs) == { resolve_dir(CWD, dirs[k]) : k \in DOMAIN dirs }

\* the extension globs of an allow-list
AllowedExts(allowed) ==
    (IF "YAML" \in allowed THEN {EXT_YAML, EXT_YML} ELSE {})
        \cup (IF "JSON" \in allowed THEN {EXT_JSON} ELSE {})
        \cup (IF "TOML" \in allowed THEN {EXT_TOML} ELSE {})
        \cup (IF "INI" \in allowed THEN {EXT_INI, EXT_CFG} ELSE {})

\* the discovered files: the children of the listed directories that exist
\* whose name matches a glob of the allow-list
Discovered(f, dirs, allowed) ==
    { p \in DOMAIN f :
        /\ ParentDir(p) \in ResolvedDirs(dirs)
        /\ isdir(f, ParentDir(p))
        /\ \E e \in AllowedExts(allowed) : glob_match(BaseName(p), e) }

\* a set of paths in ascending order of the path strings
Ascending(S) ==
    CHOOSE q \in Orders(S) : \A a, b \in 1..Cardinality(S) : a < b => StrLess(q[a], q[b])

\* the document of a file
DocOf(f, p) == read_config_file(f, p, TRUE).val
LoadsOk(f, p) == read_config_file(f, p, TRUE).err = "none"

\* the left fold of deep_merge over the documents of a list of paths
RECURSIVE FoldDocs(_, _, _)
FoldDocs(acc, f, q) ==
    IF q = << >> THEN acc
    ELSE FoldDocs(deep_merge(acc, DocOf(f, q[1])), f, Tail(q))

\* what the caller of an aggregation over a list of paths receives
FoldOutcome(f, q) ==
    LET bad == { k \in 1..Len(q) : ~LoadsOk(f, q[k]) }
    IN  IF bad = {} THEN <<"return", FoldDocs(EmptyMap, f, q)>>
        ELSE LET k0 == CHOOSE k \in bad : \A j \in bad : k <= j
             IN  <<"raise", read_config_file(f, q[k0], TRUE).err, q[k0]>>

\* the value a mapping document gives a key, when it is not a mapping
ScalarAt(v, k) == IsMap(v) /\ k \in Keys(v) /\ ~IsMap(Get(v, k))

\* C1: the mapping returned is the left fold of deep_merge, from the empty
\* mapping, over the documents of the discovered files in ascending order of
\* their path strings; of two files of one directory that give a key different
\* scalars, the later path's value is in the result, whatever order glob
\* returned them in.
C1_FoldInPathOrder ==
    pc = "done" =>
        LET D == Discovered(fs, configs_dir, allowed_formats)
        IN  /\ outcome = <<"return", FoldDocs(EmptyMap, fs, Ascending(D))>>
            /\ \A a, b \in D : \A k \in {"k", "j", "s"} :
                  ( /\ ParentDir(a) = ParentDir(b)
                    /\ StrLess(a, b)
                    /\ ScalarAt(DocOf(fs, a), k)
                    /\ ScalarAt(DocOf(fs, b), k)
                    /\ \A c \in D : StrLess(b, c) => ~(IsMap(DocOf(fs, c)) /\ k \in Keys(DocOf(fs, c))) )
                  => Get(outcome[2], k) = Get(DocOf(fs, b), k)

\* a.yaml gives k = 2 and z.yaml gives k = 1: the result has k = 1
C1_Witness ==
    /\ pc = "done"
    /\ isfile(fs, In(DIR_A, N_a_yaml)) /\ fs[In(DIR_A, N_a_yaml)][2] = DOC_K2
    /\ isfile(fs, In(DIR_A, N_z_yaml)) /\ fs[In(DIR_A, N_z_yaml)][2] = DOC_K1
    /\ Len(file_paths) = 2
    /\ outcome = <<"return", Map2("k", IntV(1), "j", Map1("p", IntV(1)))>>

\* C2: a load that fails ends the call with that error at once: nothing is
\* returned, the caller gets no composite of the files before it, and no path
\* after the failing one is loaded.
C2_FailureAbortsAggregation ==
    /\ \A k \in 1..Len(loaded) :
          /\ loaded[k].path = file_paths[k]
          /\ loaded[k].err # "none" =>
                /\ k = Len(loaded)
                /\ pc = "failed"
                /\ outcome = <<"raise", loaded[k].err, loaded[k].path>>
    /\ pc = "failed" => outcome[1] = "raise" /\ Len(loaded) = file_idx
    /\ outcome[1] = "return" =>
          /\ pc = "done"
          /\ \A p \in Discovered(fs, configs_dir, allowed_formats) : LoadsOk(fs, p)

\* a file was merged, the next one failed, one more was still to load
C2_Witness ==
    /\ pc = "failed"
    /\ Len(loaded) >= 2
    /\ Len(loaded) < Len(file_paths)
    /\ loaded[1].err = "none"
    /\ config_dict # EmptyMap
    /\ outcome[1] = "raise"

\* the directory inputs that exist
ExistingDirs(f, dirs) == SelectSeq(dirs, LAMBDA d : isdir(f, resolve_dir(CWD, d)))

\* C3: a directory input that does not exist adds no file and raises nothing:
\* with no existing directory the call returns the empty mapping, and the
\* outcome of a call is the outcome over its existing directories alone.
C3_MissingDirectorySkipped ==
    /\ pc = "failed" => Len(loaded) > 0
    /\ \A p \in { file_paths[k] : k \in 1..Len(file_paths) } : isdir(fs, ParentDir(p))
    /\ ExistingDirs(fs, configs_dir) = << >> =>
          /\ file_paths = << >>
          /\ pc = "done" => outcome = <<"return", EmptyMap>>
    /\ pc \in {"done", "failed"} =>
          outcome = FoldOutcome(fs,
                        Ascending(Discovered(fs, ExistingDirs(fs, configs_dir), allowed_formats)))

\* /w/n is listed before /w/a, and the files of /w/a are merged
C3_Witness ==
    /\ pc = "done"
    /\ configs_dir = <<DIR_NONE, DIR_A>>
    /\ Len(file_paths) = 2
    /\ outcome[1] = "return"
    /\ outcome[2] # EmptyMap

\* C8: the empty mapping is a left and a right identity of the merge of
\* mappings, and an aggregation that discovers one file returns its document.
C8_EmptyMappingIdentity ==
    /\ (merge_pc = "done" /\ IsMap(dict1) /\ dict2 = EmptyMap) => merged = dict1
    /\ (merge_pc = "done" /\ dict1 = EmptyMap /\ IsMap(dict2)) => merged = dict2
    /\ pc = "done" =>
          LET D == Discovered(fs, configs_dir, allowed_formats)
          IN  Cardinality(D) = 1 => \A p \in D : outcome = <<"return", DocOf(fs, p)>>

C8_Witness ==
    /\ pc = "done"
    /\ Discovered(fs, configs_dir, allowed_formats) = {In(DIR_A2, N_b_yml)}
    /\ fs[In(DIR_A2, N_b_yml)][2] = DOC_K2
    /\ outcome = <<"return", Map2("k", IntV(2), "j", Map1("p", IntV(1)))>>

\* ------------------------------------------------------------------
\* C11: the INI decoder returns a two-level mapping: every top-level key
\* is a section name of the file and maps to a mapping, also for a section
\* without options, and every value inside a section is a string, the text
\* of the file, never a typed reading of it.
IniTextsOf(c) ==
    { c[2][o] : o \in DOMAIN c[2] }
        \cup UNION { { c[3][s][o] : o \in DOMAIN c[3][s] } : s \in DOMAIN c[3] }

C11_IniTwoLevelStrings ==
    (LoadDone /\ load_res.err = "none" /\ load_res.decoder = "ini") =>
        LET v == load_res.val
            c == fs[config_path][2]
        IN  /\ IsMap(v)
            /\ \A s \in Keys(v) :
                  /\ IsMap(Get(v, s))
                  /\ \A k \in Keys(Get(v, s)) : Get(Get(v, s), k)[1] = "str"
            /\ c[1] = "ini" =>
                  /\ Keys(v) = DOMAIN c[3]
                  /\ \A s \in Keys(v) : \A k \in Keys(Get(v, s)) :
                        Get(Get(v, s), k)[2] \in IniTextsOf(c)

\* a file with a section without options and a section holding the text "1"
C11_Witness ==
    /\ load_pc = "async_done"
    /\ load_res.err = "none"
    /\ load_res.decoder = "ini"
    /\ fs[config_path][2] =
          IniContent(NoOptions, ("s" :> NoOptions) @@ ("t" :> ("a" :> "1")))
    /\ load_res.val = Map2("s", EmptyMap, "t", Map1("a", StrV("1")))

\* ------------------------------------------------------------------
\* C12: the path list holds each file path at most once, whatever the
\* directory list: its entries need not be distinct, and may name one
\* directory both relatively and absolutely.
C12_PathListedOnce ==
    \A i, j \in 1..Len(file_paths) : file_paths[i] = file_paths[j] => i = j

\* ------------------------------------------------------------------
\* C13: discovery selects exactly the immediate children of the listed
\* directories that exist whose name matches an extension glob of an allowed
\* format; no file of a format outside the allow-list, in a nested
\* directory or with another extension is listed, loaded or merged.
IsChildOf(p, d) ==
    /\ Len(p) > Len(d) + 1
    /\ p[Len(d) + 1] = "/"
    /\ \A i \in 1..Len(d) : p[i] = d[i]
    /\ \A i \in (Len(d) + 2)..Len(p) : p[i] # "/"

ChildName(p, d) == SubSeq(p, Len(d) + 2, Len(p))

\* name is stem \o ext for some stem, and is not a hidden name
MatchesStar(name, ext) ==
    /\ name[1] # "."
    /\ \E n \in {Len(name) - Len(ext)} :
          n >= 0 /\ \A i \in 1..Len(ext) : name[n + i] = ext[i]

Selectable(f, dirs, allowed) ==
    LET exts == AllowedExts(allowed)
        there == { d \in ResolvedDirs(dirs) : d \in DOMAIN f /\ f[d] = <<"dir">> }
    IN  { p \in DOMAIN f :
            \E d \in there :
                /\ IsChildOf(p, d)
                /\ \E e \in exts : MatchesStar(ChildName(p, d), e) }

C13_DiscoverySelectsExactly ==
    LET sel == Selectable(fs, configs_dir, allowed_formats)
    IN  /\ \A i \in 1..Len(file_paths) : file_paths[i] \in sel
        /\ pc \in {"load", "done", "failed"} =>
              { file_paths[i] : i \in 1..Len(file_paths) } = sel
        /\ \A i \in 1..Len(loaded) : loaded[i].path \in sel

\* a JSON file beside a YAML file when JSON is not allowed; the nested, the
\* hidden, the upper-case and the .txt file are in the directory as well
C13_Witness ==
    /\ pc = "done"
    /\ configs_dir = <<DIR_A>>
    /\ allowed_formats = {"YAML", "INI"}
    /\ In(DIR_A, N_c_json) \in DOMAIN fs
    /\ In(DIR_SUB, N_x_yaml) \in DOMAIN fs
    /\ In(DIR_A, N_g_txt) \in DOMAIN fs
    /\ file_paths = <<In(DIR_A, N_a_yaml)>>
    /\ Len(loaded) = 1

\* ------------------------------------------------------------------
\* C14: discovery is deterministic: for one filesystem, directory list and
\* allow-list the sorted path list is the same list in the same order on
\* every call, whatever order the globs enumerate the directory in.  The
\* list is fixed by two facts that name no enumeration order: it ascends,
\* and each selectable path occurs once per listing of its directory.
Listings(p, dirs) ==
    Cardinality({ i \in DOMAIN dirs : IsChildOf(p, resolve_dir(CWD, dirs[i])) })

Occurrences(p, list) == Cardinality({ i \in DOMAIN list : list[i] = p })

C14_DiscoveryDeterministic ==
    pc \in {"load", "done", "failed"} =>
        LET sel == Selectable(fs, configs_dir, allowed_formats)
        IN  /\ \A a \in 1..(Len(file_paths) - 1) :
                  ~StrLess(file_paths[a + 1], file_paths[a])
            /\ \A i \in 1..Len(file_paths) : file_paths[i] \in sel
            /\ \A p \in sel : Occurrences(p, file_paths) = Listings(p, configs_dir)

\* /w/a is globbed before /w/a-, the sorted list has the file of /w/a- first
C14_Witness ==
    /\ pc = "load"
    /\ configs_dir = <<DIR_A, DIR_A2>>
    /\ file_paths = <<In(DIR_A2, N_b_yml), In(DIR_A, N_a_yaml)>>

\* ------------------------------------------------------------------
\* C15: a decoder failure on a file is not swallowed: the load raises an
\* error that reaches the caller, and the error value carries the path of
\* the offending file.
C15_DecodeErrorCarriesPath ==
    (load_pc = "sync_done" /\ isfile(fs, config_path)
        /\ load_res.decoder # "none" /\ fs[config_path][2] = BadContent) =>
        /\ load_res.err = "DecodeError"
        /\ load_res.source = config_path

\* ------------------------------------------------------------------
\* C16: every call of read_all_configs terminates: the directory loop and
\* the file loop run over finite lists and never past their end; each discovered
\* path is loaded at most once, with one full read; no discovery step runs
\* once loading has started.
CallAdvances ==
    /\ pc \in {"discover", "load", "done", "failed"}
    /\ pc = "load" => file_idx >= 1
    /\ dir_idx <= Len(configs_dir) + 1
    /\ file_idx <= Len(file_paths) + 1
    /\ Len(loaded) <= Len(file_paths)

LoadedAtMostOnce ==
    \A i, j \in 1..Len(loaded) : loaded[i].path = loaded[j].path => i = j

NoDiscoveryAfterLoading ==
    Len(loaded) > 0 => (pc # "discover" /\ dir_idx > Len(configs_dir))

C16_TerminatesLoadingOnce ==
    /\ CallAdvances
    /\ LoadedAtMostOnce
    /\ NoDiscoveryAfterLoading

\* ------------------------------------------------------------------
\* C17: get_file_checksum accepts a chunk_size only when it is greater
\* than 10: a chunk_size that is not greater than 10 is rejected with
\* ValueError before the file is opened, and a greater one passes the test.
C17_ChunkSizeAboveTen ==
    (sum_pc \notin {"idle", "validate"} /\ path_in_range(util_path)) =>
        IF chunk_size > CHUNK_SIZE_MIN
        THEN sum_res # <<"raise", "ValueError", "chunk_size">>
        ELSE sum_res = <<"raise", "ValueError", "chunk_size">> /\ sum_opens = 0

\* ------------------------------------------------------------------
\* C18: the asynchronous loader is observationally equivalent to the
\* synchronous one: for the same path and file content it returns the same
\* mapping or fails with the same kind of error, TOML read with the binary
\* parser included.
C18_AsyncEquivalent ==
    load_pc = "async_done" =>
        LET sync == read_config_file(fs, config_path, binary_toml)
        IN  /\ load_res.err = sync.err
            /\ load_res.val = sync.val

\* ------------------------------------------------------------------
\* C19: the result of an aggregation depends only on the set of directories
\* passed: a call with the same directories in another order, or with a
\* directory listed more than once, yields the same mapping or the same
\* failure.  Every call gives what the call with the duplicate-free
\* ascending list of its directories gives, so two calls with one set of
\* directories give the same.
RECURSIVE ListingOf(_, _, _)
ListingOf(f, dirs, allowed) ==
    IF dirs = << >> THEN << >>
    ELSE (CHOOSE r \in discover_dir(f, resolve_dir(CWD, dirs[1]), allowed) : TRUE).paths
            \o ListingOf(f, Tail(dirs), allowed)

\* what a call with the directory list dirs gives its caller
ResultOfCall(f, dirs, allowed) == FoldOutcome(f, sort_paths(ListingOf(f, dirs, allowed)))

C19_OnlyTheSetOfDirectories ==
    pc \in {"done", "failed"} =>
        outcome = ResultOfCall(fs, Ascending(ResolvedDirs(configs_dir)), allowed_formats)

\* /w/a listed twice, relatively and absolutely: both files are loaded
\* twice and the result is that of one listing
C19_Witness ==
    /\ pc = "done"
    /\ configs_dir = <<DIR_A, REL_A>>
    /\ Len(loaded) = 4
    /\ isfile(fs, In(DIR_A, N_a_yaml)) /\ fs[In(DIR_A, N_a_yaml)][2] = DOC_K2
    /\ isfile(fs, In(DIR_A, N_z_yaml)) /\ fs[In(DIR_A, N_z_yaml)][2] = DOC_K1
    /\ outcome = ResultOfCall(fs, <<DIR_A>>, allowed_formats)
    /\ outcome = <<"return", Map2("k", IntV(1), "j", Map1("p", IntV(1)))>>

\* ------------------------------------------------------------------
\* C20: whenever create_dir returns without raising, the path exists as a
\* directory, in every warn mode and whatever other processes create at the
\* path, a directory or a regular file, between the isdir test and
\* makedirs; a directory created there by another process is passed over in
\* DEBUG mode and raised as OSError in the other modes.
C20_ReturnMeansDirectory ==
    /\ mk_res.kind = "return" => isdir(fs, util_path)
    /\ (mk_pc \in {"returned", "raised"} /\ mk_res.found = "dir") =>
          IF warn_mode = "DEBUG" THEN mk_res.kind = "return"
          ELSE mk_res.kind = "raise" /\ mk_res.err = "OSError"

\* ------------------------------------------------------------------
\* C21: discovery does not filter by file type: an immediate child that is
\* a directory and whose name matches an allowed glob is put into the path
\* list, and the aggregation fails with the not-found error for that path
\* instead of skipping it; a file removed between its discovery and its
\* load makes the aggregation fail with the not-found error as well.
C21_NonFileFailsNotFound ==
    LET listed == { file_paths[i] : i \in 1..Len(file_paths) }
    IN  /\ pc \in {"load", "done", "failed"} =>
              \A p \in Selectable(fs, configs_dir, allowed_formats) :
                  isdir(fs, p) => p \in listed
        /\ \A k \in 1..Len(loaded) :
              LET path == loaded[k].path
                  \* the path is listed once more and that load is still to come
                  ahead == pc = "load" /\ \E j \in file_idx..Len(file_paths) :
                                              file_paths[j] = path
              IN  IF isfile(fs, path)
                  THEN loaded[k].err # "FileNotFoundError"
                  ELSE \/ ahead /\ loaded[k].err # "FileNotFoundError"
                       \/ /\ loaded[Len(loaded)].path = path
                          /\ loaded[Len(loaded)].err = "FileNotFoundError"
                          /\ pc = "failed"
                          /\ outcome = <<"raise", "FileNotFoundError", path>>
        /\ pc = "done" => \A p \in listed : isfile(fs, p)

\* the directory /w/a/z.yaml is listed; /w/a/a.yaml was listed, then
\* removed, and its load failed
C21_Witness ==
    /\ pc = "failed"
    /\ configs_dir = <<DIR_A>>
    /\ file_paths = <<In(DIR_A, N_a_yaml), In(DIR_A, N_z_yaml)>>
    /\ isdir(fs, In(DIR_A, N_z_yaml))
    /\ In(DIR_A, N_a_yaml) \notin DOMAIN fs
    /\ outcome = <<"raise", "FileNotFoundError", In(DIR_A, N_a_yaml)>>

====
